---------------------------- MODULE Spec2Model ----------------------------
(***************************************************************************)
(* Model of tbp/monty/frameworks/actions/actions.py: the Action class      *)
(* hierarchy, the snake_case name derivation, the field enumeration        *)
(* (__iter__), ActionJSONEncoder.default and ActionJSONDecoder.object_hook.*)
(*                                                                         *)
(* Python values are modelled as tagged records so that a conversion       *)
(* (ndarray.tolist(), tuple(...)) changes the tag and can be told from the *)
(* identity.  A dict (an instance's __dict__, a wire object) is a sequence *)
(* of <<key, value>> pairs with distinct keys, in insertion order.         *)
(***************************************************************************)
EXTENDS Integers, Sequences, FiniteSets, TLC

\* ------------------------------------------------------------------ bounds
\* Longest sequence given for a vector / quaternion field.
MaxSeqLen == 4
\* Most changes made to a wire object between the encoder and the decoder.
MaxTamper == 2
\* Most calls the recording actuator accepts.
MaxCalls == 1

\* ------------------------------------------------------------------ values
Str(s) == [kind |-> "str", s |-> s, n |-> 0, elems |-> <<>>]
Float(x) == [kind |-> "float", s |-> "", n |-> x, elems |-> <<>>]
Tuple(e) == [kind |-> "tuple", s |-> "", n |-> 0, elems |-> e]
List(e) == [kind |-> "list", s |-> "", n |-> 0, elems |-> e]
NdArray(e) == [kind |-> "ndarray", s |-> "", n |-> 0, elems |-> e]

\* range(1, n + 1) shifted by start: a sequence whose elements are all distinct
Ramp(start, n) == [i \in 1..n |-> start + i]

AgentIds == {"agent_0", "agent_1"}
FloatVals == {Float(0), Float(1)}
SeqElems == UNION {{Ramp(0, n), Ramp(1, n)} : n \in 0..MaxSeqLen}
\* what a caller may pass for a VectorXYZ / QuaternionWXYZ parameter
VecVals == {Tuple(e) : e \in SeqElems} \cup {NdArray(e) : e \in SeqElems}

\* ------------------------------------------------------------------- dicts
Keys(d) == {d[i][1] : i \in DOMAIN d}
Has(d, k) == k \in Keys(d)
Get(d, k) == d[CHOOSE i \in DOMAIN d : d[i][1] = k][2]
Remove(d, k) == SelectSeq(d, LAMBDA p : p[1] # k)
Put(d, k, v) ==
    IF Has(d, k)
    THEN [i \in DOMAIN d |-> IF d[i][1] = k THEN <<k, v>> ELSE d[i]]
    ELSE Append(d, <<k, v>>)
KeyOrder(d) == [i \in DOMAIN d |-> d[i][1]]

\* ------------------------------------------------------------ class names
\* cls.__name__ of every concrete Action subclass, character by character
ClassName ==
    [LookDown |-> <<"L","o","o","k","D","o","w","n">>,
     LookUp |-> <<"L","o","o","k","U","p">>,
     MoveForward |-> <<"M","o","v","e","F","o","r","w","a","r","d">>,
     MoveTangentially |->
        <<"M","o","v","e","T","a","n","g","e","n","t","i","a","l","l","y">>,
     OrientHorizontal |->
        <<"O","r","i","e","n","t","H","o","r","i","z","o","n","t","a","l">>,
     OrientVertical |->
        <<"O","r","i","e","n","t","V","e","r","t","i","c","a","l">>,
     SetAgentPitch |-> <<"S","e","t","A","g","e","n","t","P","i","t","c","h">>,
     SetAgentPose |-> <<"S","e","t","A","g","e","n","t","P","o","s","e">>,
     SetSensorPitch |->
        <<"S","e","t","S","e","n","s","o","r","P","i","t","c","h">>,
     SetSensorPose |-> <<"S","e","t","S","e","n","s","o","r","P","o","s","e">>,
     SetSensorRotation |->
        <<"S","e","t","S","e","n","s","o","r","R","o","t","a","t","i","o","n">>,
     SetYaw |-> <<"S","e","t","Y","a","w">>,
     TurnLeft |-> <<"T","u","r","n","L","e","f","t">>,
     TurnRight |-> <<"T","u","r","n","R","i","g","h","t">>]

Classes == DOMAIN ClassName

\* ------------------------------------------------------- name derivation
UpperAlphabet ==
    <<"A","B","C","D","E","F","G","H","I","J","K","L","M",
      "N","O","P","Q","R","S","T","U","V","W","X","Y","Z">>
LowerAlphabet ==
    <<"a","b","c","d","e","f","g","h","i","j","k","l","m",
      "n","o","p","q","r","s","t","u","v","w","x","y","z">>

\* str.isupper() of one character
isupper(c) == \E i \in DOMAIN UpperAlphabet : UpperAlphabet[i] = c
\* str.lower() of one character
lower(c) ==
    IF isupper(c)
    THEN LowerAlphabet[CHOOSE i \in DOMAIN UpperAlphabet : UpperAlphabet[i] = c]
    ELSE c

\* "".join(list of strings)
RECURSIVE join(_)
join(parts) == IF parts = <<>> THEN "" ELSE Head(parts) \o join(Tail(parts))

\* str.lstrip("_") on a sequence of characters
RECURSIVE lstrip(_)
lstrip(chars) ==
    IF chars # <<>> /\ Head(chars) = "_" THEN lstrip(Tail(chars)) ELSE chars

\* the list comprehension of _camel_case_to_snake_case, flattened to characters
RECURSIVE SnakeChars(_)
SnakeChars(chars) ==
    IF chars = <<>> THEN <<>>
    ELSE (IF isupper(Head(chars))
          THEN <<"_", lower(Head(chars))>>
          ELSE <<Head(chars)>>) \o SnakeChars(Tail(chars))

camel_case_to_snake_case_nostrip(chars) == join(SnakeChars(chars))

camel_case_to_snake_case(chars) == join(lstrip(SnakeChars(chars)))

\* _camel_case_to_snake_case(cls.__name__) of every subclass (a class's name
\* never changes, so the derivation is tabulated once)
DerivedNames == [c \in Classes |-> camel_case_to_snake_case(ClassName[c])]

\* Action.action_name(): classmethod, from cls.__name__
action_name(cls) == DerivedNames[cls]

\* Action.name: property of an instance
name(a) == action_name(a.cls)


\* --------------------------------------------------------- class tables
\* constructor signature of every subclass, self left out (declaration order)
Params ==
    [LookDown |-> <<"agent_id", "rotation_degrees", "constraint_degrees">>,
     LookUp |-> <<"agent_id", "rotation_degrees", "constraint_degrees">>,
     MoveForward |-> <<"agent_id", "distance">>,
     MoveTangentially |-> <<"agent_id", "distance", "direction">>,
     OrientHorizontal |->
        <<"agent_id", "rotation_degrees", "left_distance", "forward_distance">>,
     OrientVertical |->
        <<"agent_id", "rotation_degrees", "down_distance", "forward_distance">>,
     SetAgentPitch |-> <<"agent_id", "pitch_degrees">>,
     SetAgentPose |-> <<"agent_id", "location", "rotation_quat">>,
     SetSensorPitch |-> <<"agent_id", "pitch_degrees">>,
     SetSensorPose |-> <<"agent_id", "location", "rotation_quat">>,
     SetSensorRotation |-> <<"agent_id", "rotation_quat">>,
     SetYaw |-> <<"agent_id", "rotation_degrees">>,
     TurnLeft |-> <<"agent_id", "rotation_degrees">>,
     TurnRight |-> <<"agent_id", "rotation_degrees">>]

\* attributes in the order the constructor body assigns them
\* (Action.__init__ sets agent_id first, then the subclass body runs)
InitOrder ==
    [LookDown |-> <<"agent_id", "constraint_degrees", "rotation_degrees">>,
     LookUp |-> <<"agent_id", "constraint_degrees", "rotation_degrees">>,
     MoveForward |-> <<"agent_id", "distance">>,
     MoveTangentially |-> <<"agent_id", "distance", "direction">>,
     OrientHorizontal |->
        <<"agent_id", "rotation_degrees", "left_distance", "forward_distance">>,
     OrientVertical |->
        <<"agent_id", "rotation_degrees", "down_distance", "forward_distance">>,
     SetAgentPitch |-> <<"agent_id", "pitch_degrees">>,
     SetAgentPose |-> <<"agent_id", "location", "rotation_quat">>,
     SetSensorPitch |-> <<"agent_id", "pitch_degrees">>,
     SetSensorPose |-> <<"agent_id", "location", "rotation_quat">>,
     SetSensorRotation |-> <<"agent_id", "rotation_quat">>,
     SetYaw |-> <<"agent_id", "rotation_degrees">>,
     TurnLeft |-> <<"agent_id", "rotation_degrees">>,
     TurnRight |-> <<"agent_id", "rotation_degrees">>]

\* parameters annotated VectorXYZ or QuaternionWXYZ
VectorKeys == {"direction", "location", "rotation_quat"}

\* parameters that have a default in the signature
HasDefault(cls, k) == cls \in {"LookDown", "LookUp"} /\ k = "constraint_degrees"
\* constraint_degrees: float = 0.0
ParamDefault_zero(cls, k) == Float(0)

\* constraint_degrees: float = 90.0
ParamDefault(cls, k) == Float(90)

\* getattr(a, k)
Attr(a, k) == Get(a.dict, k)

\* the instance no variable holds yet (Python's None)
NoAction == [cls |-> "None", dict |-> <<>>]

\* V(**kwargs): runs V.__init__, which fills self.__dict__
New(cls, kwargs) ==
    [cls |-> cls,
     dict |-> [i \in DOMAIN InitOrder[cls] |->
                 LET k == InitOrder[cls][i]
                 IN  <<k, IF Has(kwargs, k) THEN Get(kwargs, k)
                          ELSE ParamDefault(cls, k)>>]]

\* ------------------------------------------------------ field enumeration
\* Action.__iter__: the pairs it yields, in order
iter(a) ==
    <<<<"action", Str(name(a))>>>> \o SelectSeq(a.dict, LAMBDA p : p[1] # "name")

\* dict(iterable of pairs): later pairs overwrite, first insertion keeps its place
RECURSIVE dict_from(_, _)
dict_from(acc, pairs) ==
    IF pairs = <<>> THEN acc
    ELSE dict_from(Put(acc, Head(pairs)[1], Head(pairs)[2]), Tail(pairs))

\* ndarray.tolist()
tolist(v) == List(v.elems)

\* ----------------------------------------------------------------- encoder
\* ActionJSONEncoder.default that leaves ndarray values out of the object
default_skip_ndarray(obj) ==
    SelectSeq(dict_from(<<>>, iter(obj)), LAMBDA p : p[2].kind # "ndarray")

\* ActionJSONEncoder.default for an Action: the dict it returns
default(obj) ==
    LET d == dict_from(<<>>, iter(obj))
    IN  [i \in DOMAIN d |->
            IF d[i][2].kind = "ndarray"
            THEN <<d[i][1], tolist(d[i][2])>>
            ELSE d[i]]

\* ------------------------------------------------------------ return values
RetNone == [kind |-> "none", text |-> "", exc |-> "", dict |-> <<>>, action |-> NoAction]
RetStr(s) == [RetNone EXCEPT !.kind = "str", !.text = s]
RetDict(d) == [RetNone EXCEPT !.kind = "dict", !.dict = d]
RetAction(a) == [RetNone EXCEPT !.kind = "action", !.action = a]
\* raise exc(msg): nothing is returned
Raise(exc, msg) == [RetNone EXCEPT !.kind = "raise", !.exc = exc, !.text = msg]

\* ----------------------------------------------------------------- decoder
\* the elif chain of object_hook, top to bottom
DispatchOrder ==
    <<"LookDown", "LookUp", "MoveForward", "MoveTangentially", "OrientHorizontal",
      "OrientVertical", "SetAgentPitch", "SetAgentPose", "SetSensorPitch",
      "SetSensorPose", "SetSensorRotation", "SetYaw", "TurnLeft", "TurnRight">>

\* keyword arguments of each branch in evaluation order; every keyword is
\* read from the key of the same name
DecodeKeys ==
    [LookDown |-> <<"agent_id", "rotation_degrees", "constraint_degrees">>,
     LookUp |-> <<"agent_id", "rotation_degrees", "constraint_degrees">>,
     MoveForward |-> <<"agent_id", "distance">>,
     MoveTangentially |-> <<"agent_id", "distance", "direction">>,
     OrientHorizontal |->
        <<"agent_id", "rotation_degrees", "left_distance", "forward_distance">>,
     OrientVertical |->
        <<"agent_id", "rotation_degrees", "down_distance", "forward_distance">>,
     SetAgentPitch |-> <<"agent_id", "pitch_degrees">>,
     SetAgentPose |-> <<"agent_id", "location", "rotation_quat">>,
     SetSensorPitch |-> <<"agent_id", "pitch_degrees">>,
     SetSensorPose |-> <<"agent_id", "location", "rotation_quat">>,
     SetSensorRotation |-> <<"agent_id", "rotation_quat">>,
     SetYaw |-> <<"agent_id", "rotation_degrees">>,
     TurnLeft |-> <<"agent_id", "rotation_degrees">>,
     TurnRight |-> <<"agent_id", "rotation_degrees">>]

\* keywords whose value the branch wraps in tuple(...)
TupleWrapped == {"direction", "location", "rotation_quat"}

Iterable(v) == v.kind \in {"tuple", "list", "ndarray"}
\* x, y, z = iterable[:3]
tuple_xyz(v) == Tuple(SubSeq(v.elems, 1, IF Len(v.elems) < 3 THEN Len(v.elems) ELSE 3))

\* tuple(iterable)
tuple(v) == Tuple(v.elems)

MissingActionMsg == "Invalid action object: missing 'action' key."
UnknownActionMsg(action) ==
    "Invalid action object: unknown action '" \o action.s \o "'."

\* a branch that reads defaulted parameters with obj.get and lets the
\* constructor default apply
RECURSIVE decode_branch_defaulting(_, _, _, _)
decode_branch_defaulting(cls, obj, todo, kwargs) ==
    IF todo = <<>> THEN RetAction(New(cls, kwargs))
    ELSE LET k == Head(todo)
         IN  IF ~Has(obj, k) /\ HasDefault(cls, k)
             THEN decode_branch_defaulting(cls, obj, Tail(todo), kwargs)
             ELSE IF ~Has(obj, k) THEN Raise("KeyError", k)
             ELSE decode_branch_defaulting(cls, obj, Tail(todo),
                     Append(kwargs,
                        <<k, IF k \in TupleWrapped THEN tuple(Get(obj, k))
                             ELSE Get(obj, k)>>))

\* a branch that rejects an object carrying a key it does not read
RECURSIVE decode_branch_strict(_, _, _, _)
decode_branch_strict(cls, obj, todo, kwargs) ==
    IF \E k \in Keys(obj) : k # "action" /\ \A i \in DOMAIN DecodeKeys[cls] : DecodeKeys[cls][i] # k
    THEN Raise("TypeError", "unexpected keyword argument")
    ELSE IF todo = <<>> THEN RetAction(New(cls, kwargs))
    ELSE LET k == Head(todo)
         IN  IF ~Has(obj, k) THEN Raise("KeyError", k)
             ELSE decode_branch_strict(cls, obj, Tail(todo),
                     Append(kwargs,
                        <<k, IF k \in TupleWrapped THEN tuple(Get(obj, k))
                             ELSE Get(obj, k)>>))

\* one branch of the chain: evaluate the keyword arguments left to right, then
\* call the constructor
RECURSIVE decode_branch(_, _, _, _)
decode_branch(cls, obj, todo, kwargs) ==
    IF todo = <<>> THEN RetAction(New(cls, kwargs))
    ELSE LET k == Head(todo)
         IN  IF ~Has(obj, k) THEN Raise("KeyError", k)
             ELSE IF k \in TupleWrapped /\ ~Iterable(Get(obj, k))
             THEN Raise("TypeError", k)
             ELSE decode_branch(cls, obj, Tail(todo),
                     Append(kwargs,
                        <<k, IF k \in TupleWrapped THEN tuple(Get(obj, k))
                             ELSE Get(obj, k)>>))

\* object_hook reading the discriminator with obj.get("action")
object_hook_get(obj) ==
    LET action == IF Has(obj, "action") THEN Get(obj, "action") ELSE Str("None")
        hits == {i \in DOMAIN DispatchOrder :
                   action = Str(action_name(DispatchOrder[i]))}
    IN  IF hits = {} THEN Raise("ValueError", UnknownActionMsg(action))
        ELSE LET first == CHOOSE i \in hits : \A j \in hits : i <= j
                 cls == DispatchOrder[first]
             IN  decode_branch(cls, obj, DecodeKeys[cls], <<>>)

\* ActionJSONDecoder.object_hook: the action it returns or the error it raises
object_hook(obj) ==
    IF ~Has(obj, "action") THEN Raise("ValueError", MissingActionMsg)
    ELSE LET action == Get(obj, "action")
             hits == {i \in DOMAIN DispatchOrder :
                        action = Str(action_name(DispatchOrder[i]))}
         IN  IF hits = {} THEN Raise("ValueError", UnknownActionMsg(action))
             ELSE LET first == CHOOSE i \in hits : \A j \in hits : i <= j
                      cls == DispatchOrder[first]
                  IN  decode_branch(cls, obj, DecodeKeys[cls], <<>>)

\* ------------------------------------------------------------ collaborators
\* the Actuator method each subclass's act() calls
ActuateEntry ==
    [LookDown |-> "actuate_look_down",
     LookUp |-> "actuate_look_up",
     MoveForward |-> "actuate_move_forward",
     MoveTangentially |-> "actuate_move_tangentially",
     OrientHorizontal |-> "actuate_orient_horizontal",
     OrientVertical |-> "actuate_orient_vertical",
     SetAgentPitch |-> "actuate_set_agent_pitch",
     SetAgentPose |-> "actuate_set_agent_pose",
     SetSensorPitch |-> "actuate_set_sensor_pitch",
     SetSensorPose |-> "actuate_set_sensor_pose",
     SetSensorRotation |-> "actuate_set_sensor_rotation",
     SetYaw |-> "actuate_set_yaw",
     TurnLeft |-> "actuate_turn_left",
     TurnRight |-> "actuate_turn_right"]

\* the ActionSampler method each subclass's sample() calls
SampleEntry ==
    [LookDown |-> "sample_look_down",
     LookUp |-> "sample_look_up",
     MoveForward |-> "sample_move_forward",
     MoveTangentially |-> "sample_move_tangentially",
     OrientHorizontal |-> "sample_orient_horizontal",
     OrientVertical |-> "sample_orient_vertical",
     SetAgentPitch |-> "sample_set_agent_pitch",
     SetAgentPose |-> "sample_set_agent_pose",
     SetSensorPitch |-> "sample_set_sensor_pitch",
     SetSensorPose |-> "sample_set_sensor_pose",
     SetSensorRotation |-> "sample_set_sensor_rotation",
     SetYaw |-> "sample_set_yaw",
     TurnLeft |-> "sample_turn_left",
     TurnRight |-> "sample_turn_right"]

\* LookUp.act pasted from LookDown.act without renaming the entry point
act_pasted(a) ==
    [entry |-> IF a.cls = "LookUp" THEN ActuateEntry["LookDown"] ELSE ActuateEntry[a.cls],
     arg |-> a]

\* a.act(actuator): the one call it makes on the actuator
act(a) == [entry |-> ActuateEntry[a.cls], arg |-> a]

\* V.sample(agent_id, sampler): the entry point it calls on the sampler
sample(cls) == SampleEntry[cls]

\* ------------------------------------------------------------------ inputs
\* the values a caller passes for parameter k
ParamVals(k) ==
    IF k = "agent_id" THEN {Str(id) : id \in AgentIds}
    ELSE IF k \in VectorKeys THEN VecVals
    ELSE FloatVals

\* every way of passing the parameters keys, as keyword arguments
RECURSIVE Kwargs(_)
Kwargs(keys) ==
    IF keys = <<>> THEN {<<>>}
    ELSE {<<<<Head(keys), v>>>> \o rest :
            v \in ParamVals(Head(keys)), rest \in Kwargs(Tail(keys))}

\* the calls V(...) a caller can make: all parameters, or the defaulted ones left out
CallsOf(cls) ==
    Kwargs(Params[cls]) \cup
    Kwargs(SelectSeq(Params[cls], LAMBDA k : ~HasDefault(cls, k)))

\* VectorXYZ = Tuple[float, float, float]
VectorArity == 3
\* QuaternionWXYZ = Tuple[float, float, float, float]
QuaternionArity == 4
Arity(k) == IF k = "rotation_quat" THEN QuaternionArity ELSE VectorArity

\* the values of parameter k that have the annotated type
TypedVals(k) ==
    IF k \in VectorKeys
    THEN {v \in ParamVals(k) : v.kind = "tuple" /\ Len(v.elems) = Arity(k)}
    ELSE ParamVals(k)

RECURSIVE TypedKwargs(_)
TypedKwargs(keys) ==
    IF keys = <<>> THEN {<<>>}
    ELSE {<<<<Head(keys), v>>>> \o rest :
            v \in TypedVals(Head(keys)), rest \in TypedKwargs(Tail(keys))}

\* what a sampler entry point may return: a fully populated, well-typed instance
\* of the variant the entry point is named after, for the given agent
SamplerReturns(entry, agent_id) ==
    UNION {{New(cls, kw) : kw \in {k \in TypedKwargs(Params[cls]) :
                                       Get(k, "agent_id") = Str(agent_id)}} :
           cls \in {c \in Classes : "sample_" \o action_name(c) = entry}}

\* keys a document may carry that no variant reads, or that this variant does not
ExtraKeys == {"name", "distance"}
\* discriminators a document's "action" may be rewritten to
RelabelTo == {"not_a_real_action", "turn_left", "set_sensor_rotation"}

\* ------------------------------------------------------------------- state
VARIABLES
    inst,           \* the action instance under study (one per run)
    ctorArgs,       \* the keyword arguments it was constructed with
    wire,           \* the object handed to the decoder
    tampers,        \* changes made to wire since the encoder produced it
    ret,            \* what the last call returned or raised
    op,             \* the last call
    actuatorCalls,  \* calls the actuator received, in order
    samplerCalls    \* calls the sampler received, in order

vars == <<inst, ctorArgs, wire, tampers, ret, op, actuatorCalls, samplerCalls>>

Op(n) == [name |-> n, cls |-> "", agent_id |-> "", target |-> NoAction]

Init ==
    /\ inst = NoAction
    /\ ctorArgs = <<>>
    /\ wire = <<>>
    /\ tampers = 0
    /\ ret = RetNone
    /\ op = Op("init")
    /\ actuatorCalls = <<>>
    /\ samplerCalls = <<>>

\* a = V(**kwargs)
Construct ==
    \E cls \in Classes : \E kw \in CallsOf(cls) :
        /\ inst = NoAction
        /\ inst' = New(cls, kw)
        /\ ctorArgs' = kw
        /\ ret' = RetAction(inst')
        /\ op' = [Op("construct") EXCEPT !.cls = cls]
        /\ UNCHANGED <<wire, tampers, actuatorCalls, samplerCalls>>

\* a = V.sample(agent_id, sampler)
Sample ==
    \E cls \in Classes : \E id \in AgentIds :
      \E a \in SamplerReturns(sample(cls), id) :
        /\ inst = NoAction
        /\ samplerCalls' = Append(samplerCalls,
              [entry |-> sample(cls), agent_id |-> id, returned |-> a])
        /\ inst' = a
        /\ ctorArgs' = a.dict
        /\ ret' = RetAction(a)
        /\ op' = [Op("sample") EXCEPT !.cls = cls, !.agent_id = id]
        /\ UNCHANGED <<wire, tampers, actuatorCalls>>

\* a.name
ReadName ==
    /\ inst # NoAction
    /\ ret' = RetStr(name(inst))
    /\ op' = Op("name")
    /\ UNCHANGED <<inst, ctorArgs, wire, tampers, actuatorCalls, samplerCalls>>

\* list(a)
Enumerate ==
    /\ inst # NoAction
    /\ ret' = RetDict(iter(inst))
    /\ op' = Op("iter")
    /\ UNCHANGED <<inst, ctorArgs, wire, tampers, actuatorCalls, samplerCalls>>

\* Encode that rewrites the instance's ndarray attributes as lists in place
Encode_inplace ==
    /\ inst # NoAction
    /\ wire' = default(inst)
    /\ inst' = [inst EXCEPT !.dict = Tail(default(inst))]
    /\ tampers' = 0
    /\ ret' = RetDict(wire')
    /\ op' = Op("encode")
    /\ UNCHANGED <<ctorArgs, actuatorCalls, samplerCalls>>

\* wire = ActionJSONEncoder().default(a)
Encode ==
    /\ inst # NoAction
    /\ wire' = default(inst)
    /\ tampers' = 0
    /\ ret' = RetDict(wire')
    /\ op' = Op("encode")
    /\ UNCHANGED <<inst, ctorArgs, actuatorCalls, samplerCalls>>

\* ActionJSONDecoder().object_hook(wire)
Decode ==
    /\ wire # <<>>
    /\ ret' = object_hook(wire)
    /\ op' = Op("decode")
    /\ UNCHANGED <<inst, ctorArgs, wire, tampers, actuatorCalls, samplerCalls>>

\* a.act(actuator), on the instance under study or on the one just decoded
Act ==
    \E a \in {inst} \cup (IF op.name = "decode" THEN {ret.action} ELSE {}) :
        /\ a # NoAction
        /\ Len(actuatorCalls) < MaxCalls
        /\ actuatorCalls' = Append(actuatorCalls, act(a))
        /\ ret' = RetNone
        /\ op' = [Op("act") EXCEPT !.target = a]
        /\ UNCHANGED <<inst, ctorArgs, wire, tampers, samplerCalls>>

\* the document reaches the decoder with one key missing
DropKey ==
    \E k \in Keys(wire) :
        /\ tampers < MaxTamper
        /\ wire' = Remove(wire, k)
        /\ tampers' = tampers + 1
        /\ ret' = RetNone
        /\ op' = Op("tamper")
        /\ UNCHANGED <<inst, ctorArgs, actuatorCalls, samplerCalls>>

\* the document reaches the decoder with one more key
AddKey ==
    \E k \in ExtraKeys \ Keys(wire) :
        /\ wire # <<>>
        /\ tampers < MaxTamper
        /\ wire' = Append(wire, <<k, Float(1)>>)
        /\ tampers' = tampers + 1
        /\ ret' = RetNone
        /\ op' = Op("tamper")
        /\ UNCHANGED <<inst, ctorArgs, actuatorCalls, samplerCalls>>

\* the document reaches the decoder with another discriminator
Relabel ==
    \E v \in RelabelTo :
        /\ Has(wire, "action")
        /\ Get(wire, "action") # Str(v)
        /\ tampers < MaxTamper
        /\ wire' = Put(wire, "action", Str(v))
        /\ tampers' = tampers + 1
        /\ ret' = RetNone
        /\ op' = Op("tamper")
        /\ UNCHANGED <<inst, ctorArgs, actuatorCalls, samplerCalls>>

Next ==
    \/ Construct
    \/ Sample
    \/ ReadName
    \/ Enumerate
    \/ Encode
    \/ Decode
    \/ Act

\* the life of one instance: created, read, encoded, decoded again, executed
Spec == Init /\ [][Next]_vars

\* an encoded instance, as its document leaves the encoder
InitWire ==
    \E cls \in Classes : \E kw \in CallsOf(cls) :
        /\ inst = New(cls, kw)
        /\ ctorArgs = kw
        /\ wire = default(inst)
        /\ tampers = 0
        /\ ret = RetDict(wire)
        /\ op = Op("encode")
        /\ actuatorCalls = <<>>
        /\ samplerCalls = <<>>

NextWire ==
    \/ DropKey
    \/ AddKey
    \/ Relabel
    \/ Decode

\* the decoder on documents that differ from what the encoder wrote
SpecWire == InitWire /\ [][NextWire]_vars


\* ================================================================= claims
\* the discriminators of the wire contract, as the specification lists them
WireToken ==
    [LookDown |-> "look_down", LookUp |-> "look_up",
     MoveForward |-> "move_forward", MoveTangentially |-> "move_tangentially",
     OrientHorizontal |-> "orient_horizontal", OrientVertical |-> "orient_vertical",
     SetAgentPitch |-> "set_agent_pitch", SetAgentPose |-> "set_agent_pose",
     SetSensorPitch |-> "set_sensor_pitch", SetSensorPose |-> "set_sensor_pose",
     SetSensorRotation |-> "set_sensor_rotation", SetYaw |-> "set_yaw",
     TurnLeft |-> "turn_left", TurnRight |-> "turn_right"]

\* agent_id and the declared fields of a variant
Declared(cls) == {Params[cls][i] : i \in DOMAIN Params[cls]}
\* the variant a discriminator value identifies, if any
Identified(v) == {c \in Classes : v = Str(WireToken[c])}
\* equality of two field values, sequences element by element in order
FieldEq(k, v, w) ==
    IF k \in VectorKeys
    THEN /\ Len(v.elems) = Len(w.elems)
         /\ \A i \in DOMAIN v.elems : v.elems[i] = w.elems[i]
    ELSE v = w
SameAction(a, b) ==
    /\ a.cls = b.cls
    /\ name(a) = name(b)
    /\ Keys(a.dict) = Keys(b.dict)
    /\ \A k \in Keys(a.dict) : FieldEq(k, Attr(a, k), Attr(b, k))

\* C1: decoding what the encoder produced for an instance returns an instance
\* of the same variant, with the same name, agent_id and fields (sequences
\* element by element).
C1_RoundTrip ==
    op.name = "decode" =>
        /\ ret.kind = "action"
        /\ SameAction(ret.action, inst)
        /\ Keys(inst.dict) = Declared(inst.cls)

C1_Witness ==
    /\ op.name = "decode"
    /\ inst.cls = "SetAgentPose"
    /\ Attr(inst, "location") = NdArray(<<1, 2, 3>>)
    /\ Attr(inst, "rotation_quat") = Tuple(<<2, 3, 4, 5>>)
    /\ ret.kind = "action"
    /\ Attr(ret.action, "location") = Tuple(<<1, 2, 3>>)

\* C2: decode fails with the malformed-input error when "action" is absent,
\* else with the unknown-variant error when its value is no known name, else
\* with the missing-field error when a key the variant requires is absent, and
\* otherwise returns an action; a failing call returns nothing, and the three
\* errors differ from one another.
C2_FailFast ==
    op.name = "decode" =>
        /\ IF ~Has(wire, "action")
           THEN ret = Raise("ValueError", MissingActionMsg)
           ELSE IF Identified(Get(wire, "action")) = {}
           THEN ret = Raise("ValueError", UnknownActionMsg(Get(wire, "action")))
           ELSE LET cls == CHOOSE c \in Identified(Get(wire, "action")) : TRUE
                IN  IF Declared(cls) \subseteq Keys(wire)
                    THEN ret.kind = "action" /\ ret.action.cls = cls
                    ELSE /\ ret.kind = "raise"
                         /\ ret.exc = "KeyError"
                         /\ ret.text \in Declared(cls) \ Keys(wire)
        /\ ret.kind = "raise" => ret.action = NoAction
        /\ ret.kind = "action" => ret.exc = ""
        /\ Has(wire, "action") =>
              MissingActionMsg # UnknownActionMsg(Get(wire, "action"))

C2_Witness ==
    /\ op.name = "decode"
    /\ ~Has(wire, "action")
    /\ ~Has(wire, "agent_id")
    /\ Has(wire, "distance")
    /\ ret = Raise("ValueError", MissingActionMsg)

\* C3: the derived name of every variant is the listed token, no two variants
\* share one, and the name read from an instance, the "action" value the
\* encoder writes and the value the decoder accepts for the variant are that
\* token.
C3_NameDerivation ==
    /\ \A c \in Classes : action_name(c) = WireToken[c]
    /\ \A c, d \in Classes : action_name(c) = action_name(d) => c = d
    /\ op.name = "name" => ret = RetStr(WireToken[inst.cls])
    /\ op.name = "encode" => Get(wire, "action") = Str(WireToken[inst.cls])
    /\ op.name = "decode" => ret.kind = "action" /\ ret.action.cls = inst.cls

C3_Witness ==
    /\ op.name = "name"
    /\ inst.cls = "SetSensorRotation"
    /\ ret.text = "set_sensor_rotation"

\* C4: the field enumeration and the encoded object start with
\* ("action", name), followed by agent_id and the declared fields in the order
\* of the constructor signature, and carry no key "name".
C4_DeclarationOrder ==
    op.name \in {"iter", "encode"} =>
        /\ ret.dict[1] = <<"action", Str(name(inst))>>
        /\ KeyOrder(ret.dict) = <<"action">> \o Params[inst.cls]
        /\ ~Has(ret.dict, "name")

\* C5: keys other than "action", agent_id and the identified variant's
\* declared fields do not change what decode returns.
Needed(obj) ==
    IF Has(obj, "action") /\ Identified(Get(obj, "action")) # {}
    THEN {"action"} \cup Declared(CHOOSE c \in Identified(Get(obj, "action")) : TRUE)
    ELSE {"action"}
Stripped(obj) == SelectSeq(obj, LAMBDA p : p[1] \in Needed(obj))

C5_ExtraKeysIgnored ==
    op.name = "decode" =>
        (object_hook(Stripped(wire)).kind = "action" =>
            /\ ret.kind = "action"
            /\ SameAction(ret.action, object_hook(Stripped(wire)).action))

C5_Witness ==
    /\ op.name = "decode"
    /\ Has(wire, "name")
    /\ Stripped(wire) # wire
    /\ ret.kind = "action"
    /\ ret.action.cls = "SetSensorRotation"
    /\ Has(wire, "location")

\* C6: a LookDown or LookUp constructed without constraint_degrees has
\* constraint_degrees 90.0, its encoded object carries 90.0 under that key, and
\* decoding it gives constraint_degrees 90.0 and the original rotation_degrees.
C6_DefaultApplied ==
    (inst.cls \in {"LookDown", "LookUp"} /\ ~Has(ctorArgs, "constraint_degrees")) =>
        /\ Attr(inst, "constraint_degrees") = Float(90)
        /\ Attr(inst, "rotation_degrees") = Get(ctorArgs, "rotation_degrees")
        /\ wire # <<>> => Get(wire, "constraint_degrees") = Float(90)
        /\ op.name = "decode" =>
              /\ ret.kind = "action"
              /\ Attr(ret.action, "constraint_degrees") = Float(90)
              /\ Attr(ret.action, "rotation_degrees") = Get(ctorArgs, "rotation_degrees")

C6_Witness ==
    /\ inst.cls = "LookDown"
    /\ ~Has(ctorArgs, "constraint_degrees")
    /\ op.name = "decode"
    /\ ret.kind = "action"
    /\ Attr(ret.action, "constraint_degrees") = Float(90)
    /\ Attr(ret.action, "rotation_degrees") = Float(1)

\* C7: no operation on an existing instance changes its agent_id or fields,
\* so encoding it again gives an equal object; decode leaves the object it is
\* given alone, so decoding it again gives an equal action.
C7_Frame ==
    [][/\ inst # NoAction => inst' = inst /\ ctorArgs' = ctorArgs
       /\ inst # NoAction =>
             \A k \in Keys(ctorArgs) : Attr(inst', k) = Get(ctorArgs, k)
       /\ (op'.name = "encode" /\ wire # <<>>) => wire' = wire
       /\ op'.name = "decode" => wire' = wire
       /\ (op'.name = "decode" /\ op.name = "decode") => ret' = ret]_vars

C7_Witness ==
    /\ op.name = "act"
    /\ wire # <<>>
    /\ inst.cls = "MoveTangentially"
    /\ Attr(inst, "direction") = NdArray(<<1, 2, 3>>)
    /\ actuatorCalls # <<>>

\* C8: act calls actuate_<wire name> once with the instance itself and nothing
\* else; sample calls sample_<wire name> once with the given agent_id and
\* nothing else, and returns what that call returned.
C8_Routing ==
    [][/\ op'.name = "act" =>
             /\ actuatorCalls' = Append(actuatorCalls,
                   [entry |-> "actuate_" \o WireToken[op'.target.cls],
                    arg |-> op'.target])
             /\ samplerCalls' = samplerCalls
       /\ op'.name = "sample" =>
             /\ samplerCalls' = Append(samplerCalls,
                   [entry |-> "sample_" \o WireToken[op'.cls],
                    agent_id |-> op'.agent_id,
                    returned |-> ret'.action])
             /\ ret'.kind = "action"
             /\ actuatorCalls' = actuatorCalls
       /\ op'.name \notin {"act", "sample"} =>
             /\ actuatorCalls' = actuatorCalls
             /\ samplerCalls' = samplerCalls]_vars

C8_Witness ==
    /\ op.name = "act"
    /\ op.target.cls = "LookUp"
    /\ op.target = inst
    /\ wire # <<>>
    /\ actuatorCalls = <<[entry |-> "actuate_look_up", arg |-> op.target]>>

\* C9: with a known discriminator and every required key present, decode
\* returns an action whose vector and quaternion fields are tuples of exactly
\* the given elements in the given order, whatever the length of the sequence.
C9_ArityNotEnforced ==
    (/\ op.name = "decode"
     /\ Has(wire, "action")
     /\ Identified(Get(wire, "action")) # {}
     /\ Needed(wire) \subseteq Keys(wire)) =>
        /\ ret.kind = "action"
        /\ \A k \in Keys(ret.action.dict) \cap VectorKeys :
              Attr(ret.action, k) = Tuple(Get(wire, k).elems)

C9_Witness ==
    /\ op.name = "decode"
    /\ ret.kind = "action"
    /\ ret.action.cls = "SetSensorPose"
    /\ Get(wire, "location") = List(<<2, 3, 4, 5>>)
    /\ Attr(ret.action, "location") = Tuple(<<2, 3, 4, 5>>)
    /\ Attr(ret.action, "rotation_quat") = Tuple(<<1, 2>>)

\* C10: decoding a look_down or look_up object that has agent_id and
\* rotation_degrees but no constraint_degrees fails with the missing-field
\* error; every field of a decoded action comes from a key of the object.
C10_NoDefaultOnDecode ==
    op.name = "decode" =>
        /\ (/\ Has(wire, "action")
            /\ Get(wire, "action") \in {Str("look_down"), Str("look_up")}
            /\ Has(wire, "agent_id")
            /\ Has(wire, "rotation_degrees")
            /\ ~Has(wire, "constraint_degrees")) =>
               ret = Raise("KeyError", "constraint_degrees")
        /\ ret.kind = "action" =>
              \A k \in Keys(ret.action.dict) :
                 /\ Has(wire, k)
                 /\ FieldEq(k, Attr(ret.action, k), Get(wire, k))

C10_Witness ==
    /\ op.name = "decode"
    /\ Has(wire, "action")
    /\ Get(wire, "action") = Str("look_up")
    /\ Has(wire, "agent_id")
    /\ Has(wire, "rotation_degrees")
    /\ Get(wire, "rotation_degrees") = Float(1)
    /\ ~Has(wire, "constraint_degrees")
    /\ ret = Raise("KeyError", "constraint_degrees")

=============================================================================
